---- MODULE Spec2Model ----
(***************************************************************************)
(* State engine of the cards library (cards.js): piles, per-card location  *)
(* attributes and the stacking forest, under the public move operations    *)
(* of Game.                                                                *)
(*                                                                         *)
(* A card object is identified by its id.  The optional fields of a card   *)
(* (card.pile, card.stacked_on, card.stack) are functions whose DOMAIN is  *)
(* the set of cards that currently have the field: `delete card.pile`      *)
(* removes the card from DOMAIN pile.  this.piles and this.pile_groups are *)
(* functions over the keys currently present in the object.                *)
(*                                                                         *)
(* Every method of Game is an operator from a game record g to the game    *)
(* record after the call.  g.threw names the exception that is propagating *)
(* ("none" when there is none): once set, the rest of the method is        *)
(* skipped, and what was mutated before the throw stays mutated.           *)
(* g.logged records a console.error call.                                  *)
(*                                                                         *)
(* rules records which of the optional callbacks the rules object defines, *)
(* pc is the callback of new_game that is running ("idle" outside of       *)
(* them), and issued is the sequence of ids next_card_id has returned.     *)
(* face_up is the face_up field of the cards, num_cards_or_1 the variable  *)
(* of that name captured by the actions move_into and flip_into build, and *)
(* library the Library object the game was built with.                     *)
(***************************************************************************)
EXTENDS Integers, Sequences, FiniteSets, TLC

VARIABLES piles, pile_groups, existing_cards, CURRENT_CARD_ID,
          pile, stacked_on, stack, last, steps, rules, pc, issued,
          face_up, num_cards_or_1, library,
          considering, play_cleanup, potential_target_pile,
          potential_target_card, cleanups, play_card_calls

vars == <<piles, pile_groups, existing_cards, CURRENT_CARD_ID,
          pile, stacked_on, stack, last, steps, rules, pc, issued,
          face_up, num_cards_or_1, library,
          considering, play_cleanup, potential_target_pile,
          potential_target_card, cleanups, play_card_calls>>

\* The fields of the game that hold the card under consideration and the
\* potential target, with the record of the calls made to the rules
ui_vars == <<considering, play_cleanup, potential_target_pile,
             potential_target_card, cleanups, play_card_calls>>

\* Number of card objects a run creates.
NumCards == 4

\* Number of calls (create_card included) a run makes on the game: steps
\* counts them.
MaxSteps == 8

\* Number of calls a run makes once all its cards are created.
MaxStacking == 5

\* rules.piles of the game under test, in construction order.
RulesPiles == <<"tp", "tp2">>

\* Pile group ids used with add_pile_to_group.
GroupIds == {"g1"}

Cards == 0..(NumCards - 1)

PileIds == {RulesPiles[i] : i \in 1..Len(RulesPiles)}

\* Depth of nested calls after which the engine raises RangeError.  A
\* recursion along stacked_on or stack links that is deeper than the number
\* of cards has revisited a card and never ends.
StackLimit == NumCards + 1

----------------------------------------------------------------------------
\* Object-field helpers

\* delete obj[k]
Del(f, k) == [x \in DOMAIN f \ {k} |-> f[x]]

\* obj[k] = v
Put(f, k, v) == [x \in DOMAIN f \cup {k} |-> IF x = k THEN v ELSE f[x]]

Ok(g) == g.threw = "none"

Throw(g, e) == [g EXCEPT !.threw = e]

\* x.pile == y.pile for card objects x and y (undefined == undefined)
SamePile(g, x, y) ==
    IF x \in DOMAIN g.pile
    THEN y \in DOMAIN g.pile /\ g.pile[x] = g.pile[y]
    ELSE y \notin DOMAIN g.pile

\* array.indexOf(item), zero-based, -1 when absent
indexOf(array, item) ==
    IF \E i \in 1..Len(array) : array[i] = item
    THEN (CHOOSE i \in 1..Len(array) :
             array[i] = item /\ \A j \in 1..(i - 1) : array[j] # item) - 1
    ELSE -1

remove_item_from_array(item, array) ==
    LET idx == indexOf(array, item) IN
    IF idx >= 0
    THEN SubSeq(array, 1, idx) \o SubSeq(array, idx + 2, Len(array))
    ELSE array

\* array.splice(at, 0, item): a start beyond the length is clamped to it
splice_insert(array, at, item) ==
    LET k == IF at > Len(array) THEN Len(array) ELSE at IN
    SubSeq(array, 1, k) \o <<item>> \o SubSeq(array, k + 1, Len(array))

----------------------------------------------------------------------------
\* The card library

\* Card type ids, the properties a card type is registered with, the ids of
\* card groups and the filters used to create them; a filter is the set of
\* properties it returns true for.
CardTypeIds == {"t1", "t2"}

Properties == {"odd", "even"}

CardGroupIds == {"ga", "gb"}

Filters == SUBSET Properties

\* The property key an object is converted to
ToPropertyKey(object) == "[object Object]"

\* Own property names of the Object constructor
ObjectOwnKeys == {"length", "name", "prototype", "assign", "create",
                  "defineProperties", "defineProperty", "entries", "freeze",
                  "fromEntries", "getOwnPropertyDescriptor",
                  "getOwnPropertyDescriptors", "getOwnPropertyNames",
                  "getOwnPropertySymbols", "getPrototypeOf", "is",
                  "isExtensible", "isFrozen", "isSealed", "keys",
                  "preventExtensions", "seal", "setPrototypeOf", "values"}

\* Object.hasOwnProperty(first, second): Object.prototype.hasOwnProperty
\* called on the Object constructor, with first as the property key; the
\* second argument is not read.
Object_hasOwnProperty(first, second) == ToPropertyKey(first) \in ObjectOwnKeys

register_card(lib, card_type_id, props) ==
    IF card_type_id \in DOMAIN lib.card_data
    THEN [lib |-> lib, threw |-> "Error"]
    ELSE [lib |-> [lib EXCEPT
                     !.all_cards = Append(@, card_type_id),
                     !.card_data = Put(@, card_type_id,
                                       [id |-> card_type_id,
                                        properties |-> props])],
          threw |-> "none"]

create_group(lib, group_id, filter) ==
    IF Object_hasOwnProperty(lib.group_data, group_id)
    THEN [lib |-> lib, threw |-> "Error"]
    ELSE LET group_members ==
                 SelectSeq(lib.all_cards,
                           LAMBDA card_type_id :
                               lib.card_data[card_type_id].properties
                                   \in filter)
         IN [lib |-> [lib EXCEPT
                        !.all_groups = Append(@, group_id),
                        !.group_data = Put(@, group_id, group_members)],
             threw |-> "none"]

----------------------------------------------------------------------------
\* Internal primitives

\* _remove_card_from_pile whose splice takes the item after card as well
_remove_card_from_pile_takes_next(g, card) ==
    IF ~Ok(g) THEN g
    ELSE IF card \notin DOMAIN g.pile THEN g
    ELSE LET prev_pile == g.pile[card] IN
         IF prev_pile \notin DOMAIN g.piles THEN Throw(g, "TypeError")
         ELSE LET items == g.piles[prev_pile]
                  idx == indexOf(items, card)
              IN [g EXCEPT
                    !.piles[prev_pile] =
                        IF idx < 0 THEN items
                        ELSE SubSeq(items, 1, idx)
                                 \o SubSeq(items, idx + 3, Len(items)),
                    !.pile = Del(@, card)]

\* _remove_card_from_pile without `delete card.pile`
_remove_card_from_pile_keeps_field(g, card) ==
    IF ~Ok(g) THEN g
    ELSE IF card \notin DOMAIN g.pile THEN g
    ELSE LET prev_pile == g.pile[card] IN
         IF prev_pile \notin DOMAIN g.piles THEN Throw(g, "TypeError")
         ELSE [g EXCEPT
                 !.piles[prev_pile] = remove_item_from_array(card, @)]

_remove_card_from_pile(g, card) ==
    IF ~Ok(g) THEN g
    ELSE IF card \notin DOMAIN g.pile THEN g
    ELSE LET prev_pile == g.pile[card] IN
         IF prev_pile \notin DOMAIN g.piles THEN Throw(g, "TypeError")
         ELSE [g EXCEPT
                 !.piles[prev_pile] = remove_item_from_array(card, @),
                 !.pile = Del(@, card)]

RECURSIVE stack_root_from(_, _, _, _)
\* orig = -1 stands for the omitted argument
stack_root_from(g, card, orig, fuel) ==
    IF fuel = 0 THEN -2
    ELSE IF card \notin DOMAIN g.stacked_on THEN card
    ELSE IF card = orig THEN g.stacked_on[card]
    ELSE stack_root_from(g, g.stacked_on[card],
                         IF orig = -1 THEN card ELSE orig, fuel - 1)

\* the card returned, or -2 when the recursion does not end
stack_root(g, card) == stack_root_from(g, card, -1, StackLimit + 1)

RECURSIVE has_stack_ancestor_from(_, _, _, _)
has_stack_ancestor_from(g, card, ancestor, fuel) ==
    IF fuel = 0 THEN "RangeError"
    ELSE IF card = ancestor THEN "true"
    ELSE IF card \in DOMAIN g.stacked_on
    THEN has_stack_ancestor_from(g, g.stacked_on[card], ancestor, fuel - 1)
    ELSE "false"

\* has_stack_ancestor without the walk up the stacked_on chain
has_stack_ancestor_self_only(g, card, ancestor) ==
    IF card = ancestor THEN "true" ELSE "false"

has_stack_ancestor(g, card, ancestor) ==
    has_stack_ancestor_from(g, card, ancestor, StackLimit)

\* The array a for-of loop over card.stack walks: the loop holds the array
\* object, which is emptied before the field is deleted.
StackArray(g, card) == IF card \in DOMAIN g.stack THEN g.stack[card] ELSE <<>>

RECURSIVE _remove_stack_from_pile_rec(_, _, _)
RECURSIVE _remove_stack_from_pile_loop(_, _, _, _)
_remove_stack_from_pile_rec(g, card, fuel) ==
    IF ~Ok(g) THEN g
    ELSE IF fuel = 0 THEN Throw(g, "RangeError")
    ELSE LET g1 == _remove_card_from_pile(g, card) IN
         IF card \in DOMAIN g1.stack
         THEN _remove_stack_from_pile_loop(g1, card, 0, fuel)
         ELSE g1

_remove_stack_from_pile_loop(g, card, i, fuel) ==
    IF ~Ok(g) THEN g
    ELSE IF i >= Len(StackArray(g, card)) THEN g
    ELSE _remove_stack_from_pile_loop(
             _remove_stack_from_pile_rec(g, StackArray(g, card)[i + 1],
                                         fuel - 1),
             card, i + 1, fuel)

_remove_stack_from_pile(g, card) ==
    _remove_stack_from_pile_rec(g, card, StackLimit)

_stack_cards(g, card_to_stack, stack_onto) ==
    IF ~Ok(g) THEN g
    ELSE [g EXCEPT
            !.stacked_on = Put(@, card_to_stack, stack_onto),
            !.stack = IF stack_onto \in DOMAIN @
                      THEN [@ EXCEPT ![stack_onto] = Append(@, card_to_stack)]
                      ELSE Put(@, stack_onto, <<card_to_stack>>)]

\* _unstack_card without the removal from the parent's stack
_unstack_card_keeps_child(g, card) ==
    IF ~Ok(g) THEN g
    ELSE IF card \notin DOMAIN g.stacked_on THEN g
    ELSE [g EXCEPT !.stacked_on = Del(@, card)]

\* _unstack_card without the removal of a stack left empty
_unstack_card_keeps_empty_stack(g, card) ==
    IF ~Ok(g) THEN g
    ELSE IF card \notin DOMAIN g.stacked_on THEN g
    ELSE LET parent == g.stacked_on[card]
             g1 == [g EXCEPT !.stacked_on = Del(@, card)]
         IN IF parent \notin DOMAIN g1.stack THEN Throw(g1, "TypeError")
            ELSE [g1 EXCEPT !.stack[parent] =
                     remove_item_from_array(card, @)]

_unstack_card(g, card) ==
    IF ~Ok(g) THEN g
    ELSE IF card \notin DOMAIN g.stacked_on THEN g
    ELSE LET parent == g.stacked_on[card]
             g1 == [g EXCEPT !.stacked_on = Del(@, card)]
         IN IF parent \notin DOMAIN g1.stack THEN Throw(g1, "TypeError")
            ELSE LET rest == remove_item_from_array(card, g1.stack[parent]) IN
                 IF Len(rest) = 0
                 THEN [g1 EXCEPT !.stack = Del(@, parent)]
                 ELSE [g1 EXCEPT !.stack[parent] = rest]

----------------------------------------------------------------------------
\* State functions

NoCard == -1

\* null where a card object or a function is held; a function is held as
\* its index in cleanups
null == -3

\* null and undefined where a pile id is held
NullPile == "null"

UndefinedPile == "undefined"

\* x == null, for a card object or a function
IsNull(x) == x \in {null, NoCard}

\* p == null, for a pile id
IsNullPile(p) == p \in {NullPile, UndefinedPile}

\* the index, -1 when the pile's items lack the card; "undefined" and
\* "TypeError" are reported through the first component
position_in_pile(g, card) ==
    IF card \notin DOMAIN g.pile THEN [kind |-> "undefined", idx |-> 0]
    ELSE IF g.pile[card] \notin DOMAIN g.piles
    THEN [kind |-> "TypeError", idx |-> 0]
    ELSE [kind |-> "index", idx |-> indexOf(g.piles[g.pile[card]], card)]

\* The state functions below return [kind, value]: kind is the type of the
\* returned value ("card", "number", "boolean", "undefined") or the error
\* thrown, and value is the card, the number or the boolean.
Value(kind, value) == [kind |-> kind, value |-> value]

\* array[position] for a zero-based position
ItemAt(array, position) ==
    IF position \in 0..(Len(array) - 1)
    THEN Value("card", array[position + 1])
    ELSE Value("undefined", 0)

get_card_in_pile(g, pile_id, position) ==
    IF pile_id \notin DOMAIN g.piles THEN Value("TypeError", 0)
    ELSE ItemAt(g.piles[pile_id], position)

top_card_of_pile(g, pile_id) ==
    IF pile_id \notin DOMAIN g.piles THEN Value("TypeError", 0)
    ELSE ItemAt(g.piles[pile_id], Len(g.piles[pile_id]) - 1)

bottom_card_of_pile(g, pile_id) ==
    IF pile_id \notin DOMAIN g.piles THEN Value("TypeError", 0)
    ELSE ItemAt(g.piles[pile_id], 0)

\* card_is_on_top_of_pile without the test of card.pile
card_is_on_top_of_pile_unchecked(g, card) ==
    IF card \notin DOMAIN g.pile \/ g.pile[card] \notin DOMAIN g.piles
    THEN Value("TypeError", 0)
    ELSE Value("boolean",
               ItemAt(g.piles[g.pile[card]], Len(g.piles[g.pile[card]]) - 1)
                   = Value("card", card))

card_is_on_top_of_pile(g, card) ==
    IF card \notin DOMAIN g.pile THEN Value("boolean", FALSE)
    ELSE IF g.pile[card] \notin DOMAIN g.piles THEN Value("TypeError", 0)
    ELSE Value("boolean",
               ItemAt(g.piles[g.pile[card]], Len(g.piles[g.pile[card]]) - 1)
                   = Value("card", card))

pile_size(g, pile_id) ==
    IF pile_id \notin DOMAIN g.piles THEN Value("TypeError", 0)
    ELSE Value("number", Len(g.piles[pile_id]))

card_has_a_stack(g, card) == Value("boolean", card \in DOMAIN g.stack)

position_in_stack(g, card) ==
    IF card \notin DOMAIN g.stacked_on THEN Value("undefined", 0)
    ELSE IF g.stacked_on[card] \notin DOMAIN g.stack
    THEN Value("TypeError", 0)
    ELSE Value("number", indexOf(g.stack[g.stacked_on[card]], card))

\* The last branch reads base, a name declared nowhere in the script, once
\* position_in_stack has returned: the read throws.
card_is_on_top_of_stack(g, card) ==
    IF card \notin DOMAIN g.stack /\ card \notin DOMAIN g.stacked_on
    THEN Value("boolean", TRUE)
    ELSE IF card \in DOMAIN g.stack THEN Value("boolean", FALSE)
    ELSE LET position == position_in_stack(g, card) IN
         IF position.kind = "TypeError" THEN position
         ELSE Value("ReferenceError", 0)

----------------------------------------------------------------------------
\* Public move operations

RECURSIVE insert_stack_into_pile_after_rec(_, _, _, _)
RECURSIVE insert_stack_into_pile_after_loop(_, _, _, _)
insert_stack_into_pile_after_rec(g, card, insert_after, fuel) ==
    IF ~Ok(g) THEN g
    ELSE IF fuel = 0 THEN Throw(g, "RangeError")
    ELSE LET anc == has_stack_ancestor(g, insert_after, card) IN
    IF anc = "RangeError" THEN Throw(g, "RangeError")
    ELSE IF anc = "true" THEN [g EXCEPT !.logged = TRUE]
    ELSE
    LET g1 == _remove_stack_from_pile(g, card)
        g2 == IF Ok(g1) /\ card \in DOMAIN g1.stacked_on
                 /\ ~SamePile(g1, g1.stacked_on[card], insert_after)
              THEN _unstack_card(g1, card)
              ELSE g1
        base_idx == position_in_pile(g2, insert_after)
    IN IF ~Ok(g2) THEN g2
       \* position_in_pile reads this.piles[insert_after.pile].items;
       \* pile_obj.items reads it when insert_after has no pile
       ELSE IF base_idx.kind # "index" THEN Throw(g2, "TypeError")
       ELSE
       LET insert_at == base_idx.idx + 1 + Len(StackArray(g2, insert_after))
           target == g2.pile[insert_after]
           g3 == [g2 EXCEPT
                    !.piles[target] = splice_insert(@, insert_at, card),
                    !.pile = Put(@, card, target)]
       IN IF card \in DOMAIN g3.stack
          THEN insert_stack_into_pile_after_loop(g3, card, 0, fuel)
          ELSE g3

insert_stack_into_pile_after_loop(g, card, i, fuel) ==
    IF ~Ok(g) THEN g
    ELSE IF i >= Len(StackArray(g, card)) THEN g
    ELSE insert_stack_into_pile_after_loop(
             insert_stack_into_pile_after_rec(g, StackArray(g, card)[i + 1],
                                              card, fuel - 1),
             card, i + 1, fuel)

insert_stack_into_pile_after(g, card, insert_after) ==
    insert_stack_into_pile_after_rec(g, card, insert_after, StackLimit)

\* stack_card_on_card without the self-stack check
stack_card_on_card_unchecked(g, card_to_stack, stack_onto) ==
    IF ~Ok(g) THEN g
    ELSE LET g1 == _unstack_card(g, card_to_stack)
             g2 == IF ~Ok(g1) THEN g1
                   ELSE IF stack_onto \in DOMAIN g1.pile
                   THEN insert_stack_into_pile_after(g1, card_to_stack,
                                                     stack_onto)
                   ELSE _remove_stack_from_pile(g1, card_to_stack)
         IN _stack_cards(g2, card_to_stack, stack_onto)

stack_card_on_card(g, card_to_stack, stack_onto) ==
    IF ~Ok(g) THEN g
    ELSE IF card_to_stack = stack_onto THEN Throw(g, "InternalError")
    ELSE LET g1 == _unstack_card(g, card_to_stack)
             g2 == IF ~Ok(g1) THEN g1
                   ELSE IF stack_onto \in DOMAIN g1.pile
                   THEN insert_stack_into_pile_after(g1, card_to_stack,
                                                     stack_onto)
                   ELSE _remove_stack_from_pile(g1, card_to_stack)
         IN _stack_cards(g2, card_to_stack, stack_onto)

\* unstack_all_from walking stack_base.stack itself, without slice()
RECURSIVE unstack_all_from_live_loop(_, _, _)
unstack_all_from_live_loop(g, stack_base, i) ==
    IF ~Ok(g) THEN g
    ELSE IF i >= Len(StackArray(g, stack_base)) THEN g
    ELSE unstack_all_from_live_loop(
             _unstack_card(g, StackArray(g, stack_base)[i + 1]),
             stack_base, i + 1)

unstack_all_from_live(g, stack_base) ==
    unstack_all_from_live_loop(g, stack_base, 0)

unstack_all_from(g, stack_base) ==
    IF ~Ok(g) THEN g
    ELSE IF stack_base \notin DOMAIN g.stack THEN g
    ELSE LET copy == g.stack[stack_base]
             step[i \in 0..Len(copy)] ==
                 IF i = 0 THEN g ELSE _unstack_card(step[i - 1], copy[i])
         IN step[Len(copy)]

unstack_card(g, card) ==
    IF ~Ok(g) THEN g
    ELSE LET had_pile == card \in DOMAIN g.pile
             had_parent == card \in DOMAIN g.stacked_on
             g1 == _unstack_card(g, card)
         IN IF Ok(g1) /\ had_pile /\ had_parent
               /\ g.stacked_on[card] \in DOMAIN g1.stack
               /\ Len(g1.stack[g.stacked_on[card]]) # 0
            THEN insert_stack_into_pile_after(g1, card, g.stacked_on[card])
            ELSE g1

remove_card_from_pile(g, card) ==
    _remove_card_from_pile(unstack_card(unstack_all_from(g, card), card),
                           card)

\* remove_stack_from_pile that takes only card out of its pile
remove_stack_from_pile_card_only(g, card) ==
    _remove_card_from_pile(_unstack_card(g, card), card)

remove_stack_from_pile(g, card) ==
    _remove_stack_from_pile(_unstack_card(g, card), card)

insert_card_into_pile_after(g, card, insert_after) ==
    insert_stack_into_pile_after(
        unstack_all_from(_unstack_card(g, card), card), card, insert_after)

RECURSIVE put_stack_on_pile_rec(_, _, _, _)
RECURSIVE put_stack_on_pile_loop(_, _, _, _, _)
put_stack_on_pile_rec(g, card, pile_id, fuel) ==
    IF ~Ok(g) THEN g
    ELSE IF fuel = 0 THEN Throw(g, "RangeError")
    ELSE
    LET g1 == _remove_stack_from_pile(g, card)
        g2 == IF ~Ok(g1) THEN g1
              ELSE [g1 EXCEPT !.pile = Put(@, card, pile_id)]
        g3 == IF ~Ok(g2) THEN g2
              ELSE IF pile_id \notin DOMAIN g2.piles
              THEN Throw(g2, "TypeError")
              ELSE [g2 EXCEPT !.piles[pile_id] = Append(@, card)]
        g4 == IF Ok(g3) /\ card \in DOMAIN g3.stack
              THEN put_stack_on_pile_loop(g3, card, pile_id, 0, fuel)
              ELSE g3
    IN IF Ok(g4) /\ card \in DOMAIN g4.stacked_on
          /\ ~SamePile(g4, g4.stacked_on[card], card)
       THEN _unstack_card(g4, card)
       ELSE g4

put_stack_on_pile_loop(g, card, pile_id, i, fuel) ==
    IF ~Ok(g) THEN g
    ELSE IF i >= Len(StackArray(g, card)) THEN g
    ELSE put_stack_on_pile_loop(
             put_stack_on_pile_rec(g, StackArray(g, card)[i + 1], pile_id,
                                   fuel - 1),
             card, pile_id, i + 1, fuel)

put_stack_on_pile(g, card, pile_id) ==
    put_stack_on_pile_rec(g, card, pile_id, StackLimit)

\* put_card_on_pile without unstack_all_from
put_card_on_pile_keeps_stack(g, card, pile_id) ==
    put_stack_on_pile(_unstack_card(g, card), card, pile_id)

put_card_on_pile(g, card, pile_id) ==
    put_stack_on_pile(unstack_all_from(_unstack_card(g, card), card),
                      card, pile_id)

\* The Fisher-Yates pass of shuffle_pile: rnd[i] is the index drawn by
\* Math.floor(Math.random() * (i + 1)) at step i (zero-based indices).
RECURSIVE fisher_yates(_, _, _)
fisher_yates(items, i, rnd) ==
    IF i <= 0 THEN items
    ELSE LET j == rnd[i]
             moving == items[i + 1]
             swapped == [[items EXCEPT ![i + 1] = items[j + 1]]
                            EXCEPT ![j + 1] = moving]
         IN fisher_yates(swapped, i - 1, rnd)

shuffle_pile(g, pile_id, rnd) ==
    IF ~Ok(g) THEN g
    ELSE IF pile_id \notin DOMAIN g.piles THEN Throw(g, "TypeError")
    ELSE LET pile_items == g.piles[pile_id]
             step[i \in 0..Len(pile_items)] ==
                 IF i = 0 THEN g
                 ELSE unstack_all_from(step[i - 1], pile_items[i])
             g1 == step[Len(pile_items)]
         IN IF ~Ok(g1) THEN g1
            ELSE [g1 EXCEPT !.piles[pile_id] =
                     fisher_yates(@, Len(@) - 1, rnd)]

\* The draws a shuffle of n items can make
Draws(n) == {rnd \in [1..(n - 1) -> 0..(n - 1)] :
                \A i \in 1..(n - 1) : rnd[i] <= i}

\* The callers' loop that stacks every card above card in its pile onto
\* card: idx runs from position_in_pile(card) + 1 while it is below
\* pile_size(card.pile), both read again at every turn.
RECURSIVE stack_cards_above_loop(_, _, _)
stack_cards_above_loop(g, card, idx) ==
    IF ~Ok(g) THEN g
    ELSE IF card \notin DOMAIN g.pile THEN Throw(g, "TypeError")
    ELSE IF g.pile[card] \notin DOMAIN g.piles THEN Throw(g, "TypeError")
    ELSE IF idx >= Len(g.piles[g.pile[card]]) THEN g
    ELSE stack_cards_above_loop(
             stack_card_on_card(g, g.piles[g.pile[card]][idx + 1], card),
             card, idx + 1)

stack_cards_above(g, card) ==
    LET target_index == position_in_pile(g, card) IN
    IF ~Ok(g) THEN g
    ELSE IF target_index.kind # "index" THEN Throw(g, "TypeError")
    ELSE stack_cards_above_loop(g, card, target_index.idx + 1)

----------------------------------------------------------------------------
\* Pile management

pile_is_in_group(g, pile_id, pile_group_id) ==
    IF pile_id \notin DOMAIN g.pile_groups THEN FALSE
    ELSE indexOf(g.pile_groups[pile_id], pile_group_id) >= 0

add_pile_to_group(g, pile_id, pile_group_id) ==
    IF ~Ok(g) THEN g
    ELSE IF pile_is_in_group(g, pile_id, pile_group_id) THEN g
    ELSE LET g1 == [g EXCEPT !.pile_groups =
                       IF pile_id \in DOMAIN @
                       THEN [@ EXCEPT ![pile_id] = Append(@, pile_group_id)]
                       ELSE Put(@, pile_id, <<pile_group_id>>)]
         \* pile_obj.element of a pile that does not exist
         IN IF pile_id \notin DOMAIN g1.piles THEN Throw(g1, "TypeError")
            ELSE g1

remove_pile_from_group(g, pile_id, pile_group_id) ==
    IF ~Ok(g) THEN g
    \* array.indexOf of the undefined this.pile_groups[pile_id]
    ELSE IF pile_id \notin DOMAIN g.pile_groups THEN Throw(g, "TypeError")
    ELSE LET g1 == [g EXCEPT !.pile_groups[pile_id] =
                       remove_item_from_array(pile_group_id, @)]
         \* pile_obj.element of a pile that does not exist
         IN IF pile_id \notin DOMAIN g1.piles THEN Throw(g1, "TypeError")
            ELSE g1

\* this.piles[pile_id] is assigned a new pile object with no items
create_pile(g, pile_id) ==
    IF ~Ok(g) THEN g
    ELSE [g EXCEPT !.piles = Put(@, pile_id, <<>>)]

\* The for-of loop of delete_pile walks this.piles[pile_id].items while
\* _remove_card_from_pile splices cards out of that same array: i is the
\* index the iterator is at.
RECURSIVE delete_pile_loop(_, _, _)
delete_pile_loop(g, pile_id, i) ==
    IF ~Ok(g) THEN g
    ELSE IF i >= Len(g.piles[pile_id]) THEN g
    ELSE delete_pile_loop(_remove_card_from_pile(g, g.piles[pile_id][i + 1]),
                          pile_id, i + 1)

delete_pile(g, pile_id) ==
    IF ~Ok(g) THEN g
    ELSE IF pile_id \notin DOMAIN g.piles THEN Throw(g, "TypeError")
    ELSE LET g1 == delete_pile_loop(g, pile_id, 0) IN
         IF ~Ok(g1) THEN g1
         ELSE [g1 EXCEPT !.piles = Del(@, pile_id),
                         !.pile_groups = Del(@, pile_id)]

----------------------------------------------------------------------------
\* The game object and its events

\* an object without keys
Empty == [x \in {} |-> 0]

\* The values of a count argument: undefined, "all" or a number
Undefined == [kind |-> "undefined", n |-> 0]

All == [kind |-> "all", n |-> 0]

Number(n) == [kind |-> "number", n |-> n]

\* new Library(name)
NewLibrary == [card_data |-> Empty, all_cards |-> <<>>,
               group_data |-> Empty, all_groups |-> <<>>]

\* the game as the methods see it
G == [piles |-> piles, pile_groups |-> pile_groups, pile |-> pile,
      stacked_on |-> stacked_on, stack |-> stack, face_up |-> face_up,
      considering |-> considering, play_cleanup |-> play_cleanup,
      potential_target_pile |-> potential_target_pile,
      potential_target_card |-> potential_target_card,
      cleanups |-> cleanups, play_card_calls |-> play_card_calls,
      threw |-> "none", logged |-> FALSE]

\* the card objects created so far
Made == 0..(CURRENT_CARD_ID - 1)

\* what the call found: the number of cards stacked on card or, for a call
\* on a pile, the number of cards of the pile that carry a stack
StacksBefore(card, pile_id) ==
    IF card # NoCard THEN Len(StackArray(G, card))
    ELSE IF pile_id \in DOMAIN piles
    THEN Cardinality({i \in 1..Len(piles[pile_id]) :
                         piles[pile_id][i] \in DOMAIN stack})
    ELSE 0

\* the call returns (or throws) and leaves the game as g; last records the
\* call, how it ended and what it found
Returns(g, op, card, other, pile_id) ==
    /\ steps < MaxSteps
    /\ steps' = steps + 1
    /\ piles' = g.piles
    /\ pile_groups' = g.pile_groups
    /\ pile' = g.pile
    /\ stacked_on' = g.stacked_on
    /\ stack' = g.stack
    /\ face_up' = g.face_up
    /\ last' = [op |-> op, card |-> card, other |-> other,
                pile_id |-> pile_id, threw |-> g.threw, logged |-> g.logged,
                had_parent |-> card \in DOMAIN stacked_on,
                had_stack |-> StacksBefore(card, pile_id)]
    /\ considering' = g.considering
    /\ play_cleanup' = g.play_cleanup
    /\ potential_target_pile' = g.potential_target_pile
    /\ potential_target_card' = g.potential_target_card
    /\ cleanups' = g.cleanups
    /\ play_card_calls' = g.play_card_calls
    /\ UNCHANGED <<existing_cards, CURRENT_CARD_ID, rules, pc, issued,
                   library>>

\* a call that leaves the variables captured by the actions alone
Apply(g, op, card, other, pile_id) ==
    /\ Returns(g, op, card, other, pile_id)
    /\ UNCHANGED num_cards_or_1

----------------------------------------------------------------------------
\* Built-in actions

\* The pile each action is built for
DestPileId == [move_into |-> "tp2", flip_into |-> "tp",
               shuffle_into |-> "tp2"]

NaN == [kind |-> "NaN", n |-> 0]

\* Math.min(cards_in_pile, count): NaN unless count is a number
Math_min(cards_in_pile, count) ==
    IF count.kind # "number" THEN NaN
    ELSE Number(IF cards_in_pile <= count.n THEN cards_in_pile ELSE count.n)

\* the turns of for (let i = 0; i < to_move; ++i): i < NaN is false
Turns(to_move) == IF to_move.kind = "number" THEN to_move.n ELSE 0

flip_card(g, card) ==
    IF ~Ok(g) THEN g
    ELSE IF card \notin DOMAIN g.face_up THEN Throw(g, "TypeError")
    ELSE [g EXCEPT !.face_up[card] = ~@]

\* The count move_into and flip_into capture when the action is built
DefaultsTo1(count) == IF count = Undefined THEN Number(1) ELSE count

\* The count shuffle_into captures: for an omitted count it evaluates the
\* comparison num_cards_or_all == "all" and drops its value
NoDefault(count) == count

num_cards_or_all == NoDefault(Undefined)

RECURSIVE move_into_loop(_, _, _, _, _)
move_into_loop(g, pile_id, dest_pile_id, move_index, turns) ==
    IF turns = 0 \/ ~Ok(g) THEN g
    ELSE LET card == get_card_in_pile(g, pile_id, move_index) IN
         IF card.kind # "card" THEN Throw(g, "TypeError")
         ELSE move_into_loop(put_card_on_pile(g, card.value, dest_pile_id),
                             pile_id, dest_pile_id, move_index, turns - 1)

\* The function of the action move_into builds, called with the game and
\* the pile the action is attached to; captured is the closure's
\* num_cards_or_1, returned as the function leaves it.
move_into(g, captured, pile_id, dest_pile_id) ==
    LET cards_in_pile == pile_size(g, pile_id) IN
    IF cards_in_pile.kind # "number"
    THEN [game |-> Throw(g, "TypeError"), num_cards_or_1 |-> captured]
    ELSE LET count == IF captured = All THEN Number(cards_in_pile.value)
                      ELSE captured
             to_move == Math_min(cards_in_pile.value, count)
             move_index == cards_in_pile.value - Turns(to_move)
         IN [game |-> move_into_loop(g, pile_id, dest_pile_id, move_index,
                                     Turns(to_move)),
             num_cards_or_1 |-> count]

RECURSIVE flip_into_loop(_, _, _, _)
flip_into_loop(g, pile_id, dest_pile_id, turns) ==
    IF turns = 0 \/ ~Ok(g) THEN g
    ELSE LET card == top_card_of_pile(g, pile_id) IN
         IF card.kind # "card" THEN Throw(g, "TypeError")
         ELSE flip_into_loop(
                  flip_card(put_card_on_pile(g, card.value, dest_pile_id),
                            card.value),
                  pile_id, dest_pile_id, turns - 1)

flip_into(g, captured, pile_id, dest_pile_id) ==
    LET cards_in_pile == pile_size(g, pile_id) IN
    IF cards_in_pile.kind # "number"
    THEN [game |-> Throw(g, "TypeError"), num_cards_or_1 |-> captured]
    ELSE LET count == IF captured = All THEN Number(cards_in_pile.value)
                      ELSE captured
             to_move == Math_min(cards_in_pile.value, count)
         IN [game |-> flip_into_loop(g, pile_id, dest_pile_id,
                                     Turns(to_move)),
             num_cards_or_1 |-> count]

RECURSIVE shuffle_into_loop(_, _, _, _)
shuffle_into_loop(g, pile_id, dest_pile_id, turns) ==
    IF turns = 0 \/ ~Ok(g) THEN g
    ELSE LET card == top_card_of_pile(g, pile_id) IN
         IF card.kind # "card" THEN Throw(g, "TypeError")
         ELSE shuffle_into_loop(
                  put_card_on_pile(g, card.value, dest_pile_id),
                  pile_id, dest_pile_id, turns - 1)

\* captured is never assigned by the function
shuffle_into(g, captured, pile_id, dest_pile_id, rnd) ==
    LET cards_in_pile == pile_size(g, pile_id) IN
    IF cards_in_pile.kind # "number" THEN Throw(g, "TypeError")
    ELSE LET num_to_move ==
                 Math_min(cards_in_pile.value,
                          IF captured = All
                          THEN Number(cards_in_pile.value)
                          ELSE captured)
         IN shuffle_pile(shuffle_into_loop(g, pile_id, dest_pile_id,
                                           Turns(num_to_move)),
                         dest_pile_id, rnd)

----------------------------------------------------------------------------
\* UI functions
\*
\* The callbacks of the rules are inputs: each call is given what the
\* callback returns, and the calls of play_card and of the cleanup functions
\* are recorded in play_card_calls and cleanups.

\* What rules.playable returns: false, true or a pre-play function
PlayableAnswers == {"false", "true", "function"}

\* What a pre-play function returns: a cleanup function or nothing
PrePlayAnswers == {"function", "undefined"}

\* What rules.play_target returns: null, a pile id, a card object, or a
\* value that is neither
NoTarget == [kind |-> "null", pile_id |-> NullPile, card |-> null]

PileTarget(pile_id) == [kind |-> "string", pile_id |-> pile_id, card |-> null]

CardTarget(card) == [kind |-> "object", pile_id |-> NullPile, card |-> card]

InvalidTarget == [kind |-> "other", pile_id |-> NullPile, card |-> null]

\* card.pile, where a pile id is held
PileOf(g, card) ==
    IF card \in DOMAIN g.pile THEN g.pile[card] ELSE UndefinedPile

is_targeting(g) ==
    \/ ~IsNullPile(g.potential_target_pile)
    \/ ~IsNull(g.potential_target_card)

stop_targeting(g) ==
    IF ~Ok(g) THEN g
    ELSE IF /\ ~IsNullPile(g.potential_target_pile)
            /\ g.potential_target_pile \notin DOMAIN g.piles
    THEN Throw(g, "TypeError")
    ELSE [g EXCEPT !.potential_target_pile = NullPile,
                   !.potential_target_card = null]

start_considering(g, card, is_playable, returned) ==
    IF ~Ok(g) THEN g
    ELSE IF is_playable = "false" THEN g
    ELSE LET g1 == IF is_playable # "function" THEN g
                   ELSE IF returned = "function"
                   THEN [g EXCEPT
                           !.cleanups =
                               Append(@, [card |-> card, calls |-> <<>>]),
                           !.play_cleanup = Len(g.cleanups) + 1]
                   ELSE [g EXCEPT !.play_cleanup = NoCard]
         IN [g1 EXCEPT !.considering = card]

stop_considering(g) ==
    LET g1 == stop_targeting(g) IN
    IF ~Ok(g1) THEN g1
    ELSE IF IsNull(g1.considering) THEN g1
    ELSE LET g2 == IF IsNull(g1.play_cleanup) THEN g1
                   ELSE [g1 EXCEPT !.cleanups[g1.play_cleanup].calls =
                            Append(@, g1.considering)]
         IN [g2 EXCEPT !.considering = null, !.play_cleanup = null]

\* start_targeting without the test of this.considering
start_targeting_unchecked(g, pile_id, card, valid_target) ==
    LET g1 == stop_targeting(g) IN
    IF ~Ok(g1) THEN g1
    ELSE IF valid_target.kind = "null" THEN g1
    ELSE IF valid_target.kind = "string"
    THEN [g1 EXCEPT !.potential_target_pile = valid_target.pile_id,
                    !.potential_target_card = NoCard]
    ELSE IF valid_target.kind = "object"
    THEN [g1 EXCEPT
            !.potential_target_pile = PileOf(g1, valid_target.card),
            !.potential_target_card = valid_target.card]
    ELSE [g1 EXCEPT !.logged = TRUE]

\* pile_id and card are handed to rules.play_target, which returns
\* valid_target
start_targeting(g, pile_id, card, valid_target) ==
    LET g1 == stop_targeting(g) IN
    IF ~Ok(g1) THEN g1
    ELSE IF IsNull(g1.considering) THEN [g1 EXCEPT !.logged = TRUE]
    ELSE IF valid_target.kind = "null" THEN g1
    ELSE IF valid_target.kind = "string"
    THEN [g1 EXCEPT !.potential_target_pile = valid_target.pile_id,
                    !.potential_target_card = NoCard]
    ELSE IF valid_target.kind = "object"
    THEN [g1 EXCEPT
            !.potential_target_pile = PileOf(g1, valid_target.card),
            !.potential_target_card = valid_target.card]
    ELSE [g1 EXCEPT !.logged = TRUE]

\* The drag handlers.  on_card is the card whose element the event is over
\* (NoCard when it is over no card) and on_pile the pile (NullPile when it
\* is over none).
drag_start(g, on_card, is_playable, returned) ==
    IF on_card = NoCard THEN g
    ELSE start_considering(g, on_card, is_playable, returned)

drag_end(g) == stop_considering(g)

drag_enter(g, on_card, on_pile, valid_target) ==
    IF on_card # NoCard
    THEN start_targeting(g, PileOf(g, on_card), on_card, valid_target)
    ELSE IF on_pile # NullPile
    THEN start_targeting(g, on_pile, NoCard, valid_target)
    ELSE g

drag_leave(g, on_card, on_pile) ==
    IF on_card # NoCard \/ on_pile # NullPile THEN stop_targeting(g)
    ELSE g

drag_over(g) == g

\* drag_drop that calls rules.play_card whether or not there is a target
drag_drop_always_plays(g) ==
    stop_considering(
        [g EXCEPT !.play_card_calls =
            Append(@, [card |-> g.considering,
                       target_pile |-> g.potential_target_pile,
                       target_card |-> g.potential_target_card])])

drag_drop(g) ==
    LET g1 == IF is_targeting(g)
              THEN [g EXCEPT !.play_card_calls =
                       Append(@, [card |-> g.considering,
                                  target_pile |-> g.potential_target_pile,
                                  target_card |-> g.potential_target_card])]
              ELSE g
    IN stop_considering(g1)

----------------------------------------------------------------------------
\* The game object and its events, continued

\* the callbacks of the rules of setup_test_game: setup, and no cleanup
TestRules == [cleanup |-> FALSE, setup |-> TRUE]

\* new Game(library, rules, play_area) with rules.piles = RulesPiles, no
\* pile groups and the callbacks of r
InitGame(r) ==
    /\ piles = [p \in PileIds |-> <<>>]
    /\ pile_groups = Empty
    /\ existing_cards = <<>>
    /\ CURRENT_CARD_ID = 0
    /\ pile = Empty
    /\ stacked_on = Empty
    /\ stack = Empty
    /\ steps = 0
    /\ rules = r
    /\ pc = "idle"
    /\ issued = <<>>
    /\ face_up = Empty
    /\ num_cards_or_1 = [move_into |-> DefaultsTo1(All),
                       flip_into |-> DefaultsTo1(All)]
    /\ library = NewLibrary
    /\ considering = null
    /\ play_cleanup = null
    /\ potential_target_pile = NullPile
    /\ potential_target_card = null
    /\ cleanups = <<>>
    /\ play_card_calls = <<>>
    /\ last = [op |-> "Game", card |-> NoCard, other |-> NoCard,
               pile_id |-> "", threw |-> "none", logged |-> FALSE,
               had_parent |-> FALSE, had_stack |-> 0]

\* next_card_id without the increment
next_card_id_stuck(current) ==
    [result |-> current, CURRENT_CARD_ID |-> current]

\* the id returned and the counter left
next_card_id(current) ==
    [result |-> current, CURRENT_CARD_ID |-> current + 1]

Init == InitGame(TestRules)

create_card ==
    /\ steps < MaxSteps
    /\ steps' = steps + 1
    /\ CURRENT_CARD_ID < NumCards
    /\ existing_cards' =
           Append(existing_cards, next_card_id(CURRENT_CARD_ID).result)
    /\ CURRENT_CARD_ID' = next_card_id(CURRENT_CARD_ID).CURRENT_CARD_ID
    /\ issued' = Append(issued, next_card_id(CURRENT_CARD_ID).result)
    /\ last' = [op |-> "create_card",
                card |-> next_card_id(CURRENT_CARD_ID).result,
                other |-> NoCard, pile_id |-> "", threw |-> "none",
                logged |-> FALSE, had_parent |-> FALSE, had_stack |-> 0]
    /\ face_up' = Put(face_up, next_card_id(CURRENT_CARD_ID).result, FALSE)
    /\ UNCHANGED <<piles, pile_groups, pile, stacked_on, stack, rules, pc,
                   num_cards_or_1, library,
                   ui_vars>>

PutCardOnPile ==
    \E card \in Made, pile_id \in DOMAIN piles :
        Apply(put_card_on_pile(G, card, pile_id),
              "put_card_on_pile", card, NoCard, pile_id)

PutStackOnPile ==
    \E card \in Made, pile_id \in DOMAIN piles :
        Apply(put_stack_on_pile(G, card, pile_id),
              "put_stack_on_pile", card, NoCard, pile_id)

StackCardOnCard ==
    \E card \in Made, other \in Made :
        Apply(stack_card_on_card(G, card, other),
              "stack_card_on_card", card, other, "")

InsertStackIntoPileAfter ==
    \E card \in Made, other \in Made :
        Apply(insert_stack_into_pile_after(G, card, other),
              "insert_stack_into_pile_after", card, other, "")

InsertCardIntoPileAfter ==
    \E card \in Made, other \in Made :
        Apply(insert_card_into_pile_after(G, card, other),
              "insert_card_into_pile_after", card, other, "")

UnstackCard ==
    \E card \in Made :
        Apply(unstack_card(G, card), "unstack_card", card, NoCard, "")

UnstackAllFrom ==
    \E card \in Made :
        Apply(unstack_all_from(G, card), "unstack_all_from", card, NoCard, "")

RemoveCardFromPile ==
    \E card \in Made :
        Apply(remove_card_from_pile(G, card),
              "remove_card_from_pile", card, NoCard, "")

RemoveStackFromPile ==
    \E card \in Made :
        Apply(remove_stack_from_pile(G, card),
              "remove_stack_from_pile", card, NoCard, "")

ShufflePile ==
    \E pile_id \in DOMAIN piles :
        \E rnd \in Draws(Len(piles[pile_id])) :
            Apply(shuffle_pile(G, pile_id, rnd),
                  "shuffle_pile", NoCard, NoCard, pile_id)

Next ==
    \/ create_card
    \/ PutCardOnPile
    \/ PutStackOnPile
    \/ StackCardOnCard
    \/ InsertStackIntoPileAfter
    \/ InsertCardIntoPileAfter
    \/ UnstackCard
    \/ UnstackAllFrom
    \/ RemoveCardFromPile
    \/ RemoveStackFromPile
    \/ ShufflePile

Spec == Init /\ [][Next]_vars

AddPileToGroup ==
    \E pile_id \in DOMAIN piles, pile_group_id \in GroupIds :
        Apply(add_pile_to_group(G, pile_id, pile_group_id),
              "add_pile_to_group", NoCard, NoCard, pile_id)

DeletePile ==
    \E pile_id \in DOMAIN piles :
        Apply(delete_pile(G, pile_id), "delete_pile", NoCard, NoCard, pile_id)

RemovePileFromGroup ==
    \E pile_id \in DOMAIN piles, pile_group_id \in GroupIds :
        Apply(remove_pile_from_group(G, pile_id, pile_group_id),
              "remove_pile_from_group", NoCard, NoCard, pile_id)

CreatePile ==
    \E pile_id \in PileIds :
        Apply(create_pile(G, pile_id), "create_pile", NoCard, NoCard, pile_id)

StackCardsAbove ==
    \E card \in Made :
        Apply(stack_cards_above(G, card), "stack_cards_above", card, NoCard,
              "")

\* The game once NumCards cards have been created, with MaxStacking calls
\* left to the run
InitCreated ==
    /\ piles = [p \in PileIds |-> <<>>]
    /\ pile_groups = Empty
    /\ existing_cards = [i \in 1..NumCards |-> i - 1]
    /\ CURRENT_CARD_ID = NumCards
    /\ pile = Empty
    /\ stacked_on = Empty
    /\ stack = Empty
    /\ steps = MaxSteps - MaxStacking
    /\ rules = TestRules
    /\ pc = "idle"
    /\ issued = [i \in 1..NumCards |-> i - 1]
    /\ face_up = [c \in Cards |-> FALSE]
    /\ num_cards_or_1 = [move_into |-> DefaultsTo1(All),
                       flip_into |-> DefaultsTo1(All)]
    /\ library = NewLibrary
    /\ considering = null
    /\ play_cleanup = null
    /\ potential_target_pile = NullPile
    /\ potential_target_card = null
    /\ cleanups = <<>>
    /\ play_card_calls = <<>>
    /\ last = [op |-> "create_card", card |-> NumCards - 1, other |-> NoCard,
               pile_id |-> "", threw |-> "none", logged |-> FALSE,
               had_parent |-> FALSE, had_stack |-> 0]

\* Dealing cards, stacking and unstacking them, and stacking the cards above
\* a card onto it
NextStacking ==
    \/ PutCardOnPile
    \/ StackCardOnCard
    \/ UnstackAllFrom
    \/ StackCardsAbove

SpecStacking == InitCreated /\ [][NextStacking]_vars

\* new_game without the loop that erases the cards of the piles
erase_no_cards(ps) == ps

\* this.piles once new_game has set the items of every pile to []
erase_all_cards(ps) == [pile_id \in DOMAIN ps |-> <<>>]

\* new_game from `this.existing_cards = []` to the call of rules.setup
ResetAndSetup ==
    /\ existing_cards' = <<>>
    /\ piles' = erase_all_cards(piles)
    /\ pc' = IF rules.setup THEN "setup" ELSE "idle"

\* new_game is called: it calls rules.cleanup when the rules define it, and
\* goes on to reset the game when they do not
new_game ==
    /\ pc = "idle"
    /\ steps < MaxSteps
    /\ steps' = steps + 1
    /\ IF rules.cleanup
       THEN pc' = "cleanup" /\ UNCHANGED <<existing_cards, piles>>
       ELSE ResetAndSetup
    /\ last' = [op |-> "new_game", card |-> NoCard, other |-> NoCard,
                pile_id |-> "", threw |-> "none", logged |-> FALSE,
                had_parent |-> FALSE, had_stack |-> 0]
    /\ UNCHANGED <<pile_groups, CURRENT_CARD_ID, pile, stacked_on, stack,
                   rules, issued, face_up, num_cards_or_1, library,
                   ui_vars>>

\* rules.cleanup returns and new_game resets the game
cleanup_returns ==
    /\ pc = "cleanup"
    /\ ResetAndSetup
    /\ last' = [op |-> "rules.cleanup", card |-> NoCard, other |-> NoCard,
                pile_id |-> "", threw |-> "none", logged |-> FALSE,
                had_parent |-> FALSE, had_stack |-> 0]
    /\ UNCHANGED <<pile_groups, CURRENT_CARD_ID, pile, stacked_on, stack,
                   rules, issued, steps, face_up, num_cards_or_1, library,
                   ui_vars>>

\* rules.setup returns, and new_game with it
setup_returns ==
    /\ pc = "setup"
    /\ pc' = "idle"
    /\ last' = [op |-> "rules.setup", card |-> NoCard, other |-> NoCard,
                pile_id |-> "", threw |-> "none", logged |-> FALSE,
                had_parent |-> FALSE, had_stack |-> 0]
    /\ UNCHANGED <<piles, pile_groups, existing_cards, CURRENT_CARD_ID, pile,
                   stacked_on, stack, rules, issued, steps, face_up,
                   num_cards_or_1, library,
                   ui_vars>>

\* create_card of another Game object: it draws its id from the same
\* CURRENT_CARD_ID and pushes the card on its own existing_cards
create_card_other_game ==
    /\ steps < MaxSteps
    /\ steps' = steps + 1
    /\ CURRENT_CARD_ID < NumCards
    /\ CURRENT_CARD_ID' = next_card_id(CURRENT_CARD_ID).CURRENT_CARD_ID
    /\ issued' = Append(issued, next_card_id(CURRENT_CARD_ID).result)
    /\ face_up' = Put(face_up, next_card_id(CURRENT_CARD_ID).result, FALSE)
    /\ last' = [op |-> "create_card_other_game",
                card |-> next_card_id(CURRENT_CARD_ID).result,
                other |-> NoCard, pile_id |-> "", threw |-> "none",
                logged |-> FALSE, had_parent |-> FALSE, had_stack |-> 0]
    /\ UNCHANGED <<piles, pile_groups, existing_cards, pile, stacked_on,
                   stack, rules, pc, num_cards_or_1, library,
                   ui_vars>>

\* a game of any rules
InitAnyRules == \E r \in [cleanup : BOOLEAN, setup : BOOLEAN] : InitGame(r)

\* Games that are reset: cards are created and dealt, by the callbacks of
\* new_game or outside of them, piles are deleted, and new_game is called
NextNewGame ==
    \/ create_card
    \/ create_card_other_game
    \/ PutCardOnPile
    \/ DeletePile
    \/ new_game
    \/ cleanup_returns
    \/ setup_returns

SpecNewGame == InitAnyRules /\ [][NextNewGame]_vars

\* a call on the library returns (or throws) and leaves it as r.lib
LibraryReturns(r, op) ==
    /\ steps < MaxSteps
    /\ steps' = steps + 1
    /\ library' = r.lib
    /\ last' = [op |-> op, card |-> NoCard, other |-> NoCard,
                pile_id |-> "", threw |-> r.threw, logged |-> FALSE,
                had_parent |-> FALSE, had_stack |-> 0]
    /\ UNCHANGED <<piles, pile_groups, existing_cards, CURRENT_CARD_ID, pile,
                   stacked_on, stack, rules, pc, issued, face_up,
                   num_cards_or_1, ui_vars>>

RegisterCard ==
    \E card_type_id \in CardTypeIds, props \in Properties :
        LibraryReturns(register_card(library, card_type_id, props),
                       "register_card")

CreateGroup ==
    \E group_id \in CardGroupIds, filter \in Filters :
        LibraryReturns(create_group(library, group_id, filter),
                       "create_group")

\* The actions of the piles are triggered
MoveInto ==
    \E pile_id \in DOMAIN piles :
        LET r == move_into(G, num_cards_or_1.move_into, pile_id,
                           DestPileId.move_into) IN
        /\ Returns(r.game, "move_into", NoCard, NoCard, pile_id)
        /\ num_cards_or_1' =
               [num_cards_or_1 EXCEPT !.move_into = r.num_cards_or_1]

FlipInto ==
    \E pile_id \in DOMAIN piles :
        LET r == flip_into(G, num_cards_or_1.flip_into, pile_id,
                           DestPileId.flip_into) IN
        /\ Returns(r.game, "flip_into", NoCard, NoCard, pile_id)
        /\ num_cards_or_1' =
               [num_cards_or_1 EXCEPT !.flip_into = r.num_cards_or_1]

ShuffleInto ==
    \E pile_id \in DOMAIN piles, rnd \in Draws(NumCards) :
        Apply(shuffle_into(G, num_cards_or_all, pile_id,
                           DestPileId.shuffle_into, rnd),
              "shuffle_into", NoCard, NoCard, pile_id)

\* Dealing and stacking cards, and triggering the actions of the piles
NextActions ==
    \/ create_card
    \/ PutCardOnPile
    \/ StackCardOnCard
    \/ MoveInto
    \/ FlipInto
    \/ ShuffleInto

SpecActions == Init /\ [][NextActions]_vars

\* The drag events of the play area
DragStart ==
    \E on_card \in Made \cup {NoCard}, is_playable \in PlayableAnswers,
       returned \in PrePlayAnswers :
        Apply(drag_start(G, on_card, is_playable, returned),
              "drag_start", NoCard, NoCard, "")

DragEnd == Apply(drag_end(G), "drag_end", NoCard, NoCard, "")

\* The values rules.play_target returns for a pile and a card: null, the
\* pile, the card or the card it is stacked on, or a value that is neither
\* a pile id nor a card
Targets(on_card, on_pile) ==
    {NoTarget, InvalidTarget}
        \cup (IF on_pile \in DOMAIN piles THEN {PileTarget(on_pile)} ELSE {})
        \cup (IF on_card = NoCard THEN {}
              ELSE IF on_card \in DOMAIN stacked_on
              THEN {CardTarget(on_card), CardTarget(stacked_on[on_card])}
              ELSE {CardTarget(on_card)})

DragEnter ==
    \E on_card \in Made \cup {NoCard},
       on_pile \in DOMAIN piles \cup {NullPile} :
        \E valid_target \in Targets(on_card, on_pile) :
            /\ on_card \in DOMAIN pile => on_pile = pile[on_card]
            /\ Apply(drag_enter(G, on_card, on_pile, valid_target),
                     "drag_enter", NoCard, NoCard, "")

DragLeave ==
    \E on_card \in Made \cup {NoCard},
       on_pile \in DOMAIN piles \cup {NullPile} :
        Apply(drag_leave(G, on_card, on_pile),
              "drag_leave", NoCard, NoCard, "")

DragOver == Apply(drag_over(G), "drag_over", NoCard, NoCard, "")

DragDrop == Apply(drag_drop(G), "drag_drop", NoCard, NoCard, "")

\* Dealing cards and dragging them
NextDrag ==
    \/ create_card
    \/ PutCardOnPile
    \/ DragStart
    \/ DragEnd
    \/ DragEnter
    \/ DragLeave
    \/ DragOver
    \/ DragDrop

SpecDrag == Init /\ [][NextDrag]_vars

\* Building a library
NextLibrary ==
    \/ RegisterCard
    \/ CreateGroup

SpecLibrary == Init /\ [][NextLibrary]_vars

\* Setting up piles, groups and stacks, and deleting piles
NextPiles ==
    \/ create_card
    \/ PutCardOnPile
    \/ StackCardOnCard
    \/ AddPileToGroup
    \/ RemovePileFromGroup
    \/ CreatePile
    \/ DeletePile

SpecPiles == Init /\ [][NextPiles]_vars

----------------------------------------------------------------------------
\* Properties

Count(array, item) == Cardinality({i \in 1..Len(array) : array[i] = item})

\* the cards reached from card by following stacked_on one or more times
RECURSIVE AncestorsWithin(_, _, _)
AncestorsWithin(g, card, n) ==
    IF n = 0 \/ card \notin DOMAIN g.stacked_on THEN {}
    ELSE {g.stacked_on[card]}
             \cup AncestorsWithin(g, g.stacked_on[card], n - 1)

StackAncestors(card) == AncestorsWithin(G, card, NumCards)

\* the cards stacked on card, directly or through other cards
SubStack(card) == {c \in Made : card \in StackAncestors(c)}

\* the call left every pile, pile field and stacking link as it was
Untouched(r) ==
    /\ r.piles = piles
    /\ r.pile_groups = pile_groups
    /\ r.pile = pile
    /\ r.stacked_on = stacked_on
    /\ r.stack = stack

\* card keeps the links it had: its stacked_on and its stack
SameParent(r, c) ==
    IF c \in DOMAIN stacked_on
    THEN c \in DOMAIN r.stacked_on /\ r.stacked_on[c] = stacked_on[c]
    ELSE c \notin DOMAIN r.stacked_on

SameStack(r, c) ==
    IF c \in DOMAIN stack
    THEN c \in DOMAIN r.stack /\ r.stack[c] = stack[c]
    ELSE c \notin DOMAIN r.stack

\* C1: a card's stacked_on is p exactly when p.stack contains the card, and
\* p.stack contains it once.
C1_StackedOnMatchesStack ==
    \A c \in Made, p \in Made :
        /\ (c \in DOMAIN stacked_on /\ stacked_on[c] = p)
               <=> (p \in DOMAIN stack /\ Count(stack[p], c) >= 1)
        /\ p \in DOMAIN stack => Count(stack[p], c) <= 1

\* A card with a stack of its own has just been stacked onto a card of a
\* pile that already carried another card, and no stack is circular.
C1_Witness ==
    /\ last.op = "stack_card_on_card"
    /\ last.threw = "none"
    /\ ~last.logged
    /\ last.other \in DOMAIN pile
    /\ \A c \in Made : c \notin StackAncestors(c)
    /\ last.card \in DOMAIN stack
    /\ last.card \in DOMAIN stacked_on
    /\ stacked_on[last.card] = last.other
    /\ Len(stack[last.other]) >= 2

\* C2: a card's pile is P exactly when P.items contains the card, and
\* P.items contains it once.
C2_PileMatchesItems ==
    \A P \in DOMAIN piles, c \in Made :
        /\ (c \in DOMAIN pile /\ pile[c] = P) <=> Count(piles[P], c) >= 1
        /\ Count(piles[P], c) <= 1

\* A card with a stack has just been inserted into a pile after another card
\* of a pile that holds at least three cards, and no stack is circular.
C2_Witness ==
    /\ last.op = "insert_stack_into_pile_after"
    /\ last.threw = "none"
    /\ ~last.logged
    /\ \A c \in Made : c \notin StackAncestors(c)
    /\ last.card \in DOMAIN stack
    /\ last.card \in DOMAIN pile
    /\ last.other \in DOMAIN pile
    /\ pile[last.card] = pile[last.other]
    /\ Len(piles[pile[last.card]]) >= 3

\* C3: no card is reachable from itself by following stacked_on links.
C3_Acyclic == \A c \in Made : c \notin StackAncestors(c)

\* C4: a stacked card is in the pile of the root of its stack chain, and in
\* no pile when that root is in none.
C4_StackInOnePile ==
    \A c \in Made :
        c \in DOMAIN stacked_on =>
            LET root == stack_root(G, c) IN
            /\ root \in Made
            /\ SamePile(G, c, root)

\* C5: stack_card_on_card(a, a) signals an error and changes nothing.
C5_SelfStackRejected ==
    \A a \in Made :
        LET r == stack_card_on_card(G, a, a) IN
        r.threw # "none" /\ Untouched(r)

\* A card that is in a pile and carries a stack has just been stacked onto
\* itself, and the call threw.
C5_Witness ==
    /\ last.op = "stack_card_on_card"
    /\ last.card = last.other
    /\ last.threw = "InternalError"
    /\ last.card \in DOMAIN pile
    /\ last.card \in DOMAIN stack

\* C6: insert_stack_into_pile_after(card, insert_after), with insert_after
\* the card itself or stacked on it directly or transitively, does not throw
\* and changes nothing.
C6_InsertAfterOwnStackRejected ==
    \A card \in Made, insert_after \in Made :
        (insert_after = card \/ insert_after \in SubStack(card)) =>
            LET r == insert_stack_into_pile_after(G, card, insert_after) IN
            r.threw = "none" /\ Untouched(r)

\* A card in a pile has just been inserted after a card of its own stack,
\* and the call reported the error.
C6_Witness ==
    /\ last.op = "insert_stack_into_pile_after"
    /\ last.threw = "none"
    /\ last.logged
    /\ last.other \in SubStack(last.card)
    /\ last.card \in DOMAIN pile

\* C7: for distinct a and b, stack_card_on_card(a, b) leaves a stacked on b
\* as the last element of b.stack and out of its former parent's stack, a
\* and its whole sub-stack in b's pile (or pile-less like b), and the links
\* inside a's sub-stack as they were.
C7_StackOntoPost ==
    \A a \in Made, b \in Made :
        a # b =>
            LET r == stack_card_on_card(G, a, b) IN
            /\ r.threw = "none"
            /\ a \in DOMAIN r.stacked_on /\ r.stacked_on[a] = b
            /\ b \in DOMAIN r.stack /\ r.stack[b][Len(r.stack[b])] = a
            /\ (a \in DOMAIN stacked_on /\ stacked_on[a] # b) =>
                   (stacked_on[a] \in DOMAIN r.stack =>
                        Count(r.stack[stacked_on[a]], a) = 0)
            /\ \A c \in {a} \cup SubStack(a) : SamePile(r, c, b)
            /\ \A c \in SubStack(a) : SameParent(r, c)
            /\ \A c \in {a} \cup SubStack(a) : SameStack(r, c)

\* card followed by its stack children in stack order, each child followed
\* by its own stack
RECURSIVE Flatten(_, _)
RECURSIVE FlattenAll(_, _)
Flatten(card, n) ==
    IF n = 0 THEN <<card>>
    ELSE <<card>> \o FlattenAll(StackArray(G, card), n - 1)

FlattenAll(cards, n) ==
    IF cards = <<>> THEN <<>>
    ELSE Flatten(Head(cards), n) \o FlattenAll(Tail(cards), n)

\* the last n elements of array
Top(array, n) == SubSeq(array, Len(array) - n + 1, Len(array))

\* C8: put_stack_on_pile(card, pile_id) leaves card followed by its stack,
\* in stack order, as the top of pile_id, all of them with pile == pile_id
\* and in no other pile, and the stacking links among them as they were.
C8_PutStackMovesUnit ==
    \A card \in Made, pile_id \in DOMAIN piles :
        LET r == put_stack_on_pile(G, card, pile_id)
            flat == Flatten(card, NumCards)
        IN /\ r.threw = "none"
           /\ Len(r.piles[pile_id]) >= Len(flat)
           /\ Top(r.piles[pile_id], Len(flat)) = flat
           /\ \A i \in 1..Len(flat) :
                  /\ flat[i] \in DOMAIN r.pile
                  /\ r.pile[flat[i]] = pile_id
                  /\ \A Q \in DOMAIN r.piles \ {pile_id} :
                         Count(r.piles[Q], flat[i]) = 0
           /\ \A c \in SubStack(card) : SameParent(r, c)
           /\ \A c \in {card} \cup SubStack(card) : SameStack(r, c)

\* C9: delete_pile(pile_id) renders every card of the pile pile-less, keeps
\* every stacked_on and stack link, and removes the pile and its pile-group
\* memberships.
C9_DeletePileDetachesAll ==
    \A pile_id \in DOMAIN piles :
        LET r == delete_pile(G, pile_id) IN
        /\ r.threw = "none"
        /\ \A i \in 1..Len(piles[pile_id]) :
               piles[pile_id][i] \notin DOMAIN r.pile
        /\ r.stacked_on = stacked_on
        /\ r.stack = stack
        /\ pile_id \notin DOMAIN r.piles
        /\ pile_id \notin DOMAIN r.pile_groups

\* the largest zero-based index at which items holds one of cards
LastIndexOf(items, cards) ==
    CHOOSE k \in -1..(Len(items) - 1) :
        /\ k >= 0 => items[k + 1] \in cards
        /\ \A j \in (k + 2)..Len(items) : items[j] \notin cards
        /\ k = -1 => \A j \in 1..Len(items) : items[j] \notin cards

\* C10: stack_card_on_card(a, b) with b in a pile, then unstack_card(a):
\* a has no stacked_on, is once in b's pile, directly after b and the cards
\* still stacked on b, and b.stack is as before a was stacked.
C10_StackThenUnstack ==
    \A a \in Made, b \in Made :
        (a # b /\ b \in DOMAIN pile) =>
            LET r == unstack_card(stack_card_on_card(G, a, b), a)
                remaining == remove_item_from_array(a, StackArray(G, b))
                others == {b} \cup {remaining[i] : i \in 1..Len(remaining)}
                items == r.piles[pile[b]]
            IN /\ r.threw = "none"
               /\ a \notin DOMAIN r.stacked_on
               /\ Count(items, a) = 1
               /\ indexOf(items, a) = LastIndexOf(items, others) + 1
               /\ IF remaining = <<>> THEN b \notin DOMAIN r.stack
                  ELSE b \in DOMAIN r.stack /\ r.stack[b] = remaining

\* the cards directly stacked on card
Children(card) == {StackArray(G, card)[i] : i \in 1..Len(StackArray(G, card))}

\* the elements of array that are in cards, in array order
Only(array, cards) == SelectSeq(array, LAMBDA x : x \in cards)

\* c has in r the pile field it has now
SamePileField(r, c) ==
    IF c \in DOMAIN pile
    THEN c \in DOMAIN r.pile /\ r.pile[c] = pile[c]
    ELSE c \notin DOMAIN r.pile

\* the cards of cards are in r in the piles they are in now, in the order
\* they have now
SamePlaces(r, cards) ==
    /\ \A c \in cards : SamePileField(r, c)
    /\ DOMAIN r.piles = DOMAIN piles
    /\ \A Q \in DOMAIN piles : Only(r.piles[Q], cards) = Only(piles[Q], cards)

C12_RemoveCardDetaches ==
    \A card \in Made :
        LET r == remove_card_from_pile(G, card) IN
        /\ r.threw = "none"
        /\ card \notin DOMAIN r.pile
        /\ card \notin DOMAIN r.stacked_on
        /\ card \notin DOMAIN r.stack
        /\ \A Q \in DOMAIN r.piles : Count(r.piles[Q], card) = 0
        /\ \A p \in DOMAIN r.stack : Count(r.stack[p], card) = 0
        /\ \A c \in Children(card) : c \notin DOMAIN r.stacked_on
        /\ SamePlaces(r, Children(card))

\* the game as r left it, seen by the next call
After(r) == [r EXCEPT !.threw = "none", !.logged = FALSE]

\* r1 and r2 hold the same piles, pile fields and stacking links
SameGame(r1, r2) ==
    /\ r1.piles = r2.piles
    /\ r1.pile_groups = r2.pile_groups
    /\ r1.pile = r2.pile
    /\ r1.stacked_on = r2.stacked_on
    /\ r1.stack = r2.stack

\* C13: remove_card_from_pile(card) on a card without pile, stacked_on and
\* stack changes nothing and raises no error, and on any card a second call
\* right after the first leaves the state the first call left.
C13_RemoveCardIdempotent ==
    \A card \in Made :
        LET once == remove_card_from_pile(G, card)
            twice == remove_card_from_pile(After(once), card)
        IN /\ (card \notin DOMAIN pile /\ card \notin DOMAIN stacked_on
                  /\ card \notin DOMAIN stack) =>
                 (once.threw = "none" /\ ~once.logged /\ Untouched(once))
           /\ twice.threw = "none"
           /\ SameGame(twice, once)

C15_UnstackAllDirectOnly ==
    \A base \in Made :
        LET r == unstack_all_from(G, base) IN
        /\ r.threw = "none"
        /\ base \notin DOMAIN r.stack
        /\ \A c \in Children(base) : c \notin DOMAIN r.stacked_on
        /\ \A c \in Made \ Children(base) : SameParent(r, c)
        /\ \A c \in Made \ {base} : SameStack(r, c)
        /\ r.pile = pile
        /\ r.piles = piles

\* Two cards have just been unstacked from a card of a pile that holds the
\* three of them.
C15_Witness ==
    /\ last.op = "unstack_all_from"
    /\ last.threw = "none"
    /\ last.had_stack >= 2
    /\ last.card \in DOMAIN pile
    /\ Len(piles[pile[last.card]]) >= 3
    /\ last.card \notin DOMAIN stack

\* C16: shuffle_pile(pile_id) leaves in the pile a permutation of the cards
\* it held, changes no card's pile field and no other pile, and leaves no
\* card of the pile with a stacked_on or a stack.
C16_ShufflePermutes ==
    \A pile_id \in DOMAIN piles :
        \A rnd \in Draws(Len(piles[pile_id])) :
            LET r == shuffle_pile(G, pile_id, rnd) IN
            /\ r.threw = "none"
            /\ Len(r.piles[pile_id]) = Len(piles[pile_id])
            /\ \A c \in Made :
                   Count(r.piles[pile_id], c) = Count(piles[pile_id], c)
            /\ r.pile = pile
            /\ \A Q \in DOMAIN piles \ {pile_id} : r.piles[Q] = piles[Q]
            /\ \A i \in 1..Len(piles[pile_id]) :
                   /\ piles[pile_id][i] \notin DOMAIN r.stacked_on
                   /\ piles[pile_id][i] \notin DOMAIN r.stack

\* C17: insert_card_into_pile_after(card, insert_after), with insert_after
\* another card that is in a pile, leaves card without stacked_on and without
\* stack, with the pile field of insert_after, once in that pile's items,
\* after insert_after and after every card stacked on insert_after.
C17_InsertCardAfter ==
    \A card \in Made, insert_after \in Made :
        (card # insert_after /\ insert_after \in DOMAIN pile) =>
            LET r == insert_card_into_pile_after(G, card, insert_after)
                items == r.piles[pile[insert_after]]
                before == {insert_after} \cup
                              {c \in Made : /\ c \in DOMAIN r.stacked_on
                                            /\ r.stacked_on[c] = insert_after}
            IN /\ r.threw = "none"
               /\ card \notin DOMAIN r.stacked_on
               /\ card \notin DOMAIN r.stack
               /\ card \in DOMAIN r.pile
               /\ r.pile[card] = pile[insert_after]
               /\ r.pile[insert_after] = pile[insert_after]
               /\ Count(items, card) = 1
               /\ indexOf(items, card) > LastIndexOf(items, before)

\* the cards above card in its pile, in pile order
Above(card) ==
    SubSeq(piles[pile[card]], indexOf(piles[pile[card]], card) + 2,
           Len(piles[pile[card]]))

\* C18: for a card b of a pile that carries no stack, with cards above it
\* that are not stacked, stacking each card above b onto b in ascending pile
\* index leaves the pile's order as it was and b.stack equal to those cards
\* in pile order; unstack_all_from(b) and a second such pass leave the same
\* pile order and the same b.stack.
C18_IteratedRestacking ==
    \A b \in Made :
        (/\ b \in DOMAIN pile
         /\ b \notin DOMAIN stack
         /\ Above(b) # <<>>
         /\ \A i \in 1..Len(Above(b)) :
                /\ Above(b)[i] \notin DOMAIN stacked_on
                /\ Above(b)[i] \notin DOMAIN stack) =>
            LET first == stack_cards_above(G, b)
                undone == unstack_all_from(After(first), b)
                second == stack_cards_above(After(undone), b)
            IN /\ first.threw = "none"
               /\ first.piles = piles
               /\ b \in DOMAIN first.stack /\ first.stack[b] = Above(b)
               /\ undone.threw = "none"
               /\ undone.piles = piles
               /\ second.threw = "none"
               /\ second.piles = piles
               /\ b \in DOMAIN second.stack /\ second.stack[b] = Above(b)

\* C19: new_game calls rules.cleanup, when the rules define it, before it
\* changes any pile or existing_cards, and when rules.setup starts
\* existing_cards is empty and every pile has size 0; with a cleanup defined,
\* setup starts only out of the return of cleanup.
C19_NewGameOrder ==
    [][/\ (pc = "idle" /\ rules.cleanup /\ last'.op = "new_game") =>
              /\ pc' = "cleanup"
              /\ UNCHANGED <<piles, pile_groups, existing_cards, pile,
                             stacked_on, stack>>
       /\ (pc # "setup" /\ pc' = "setup") =>
              /\ existing_cards' = <<>>
              /\ \A pile_id \in DOMAIN piles' : Len(piles'[pile_id]) = 0
              /\ rules.cleanup => pc = "cleanup"
       /\ pc' = "cleanup" => rules.cleanup]_vars

\* rules.setup has just been called after rules.cleanup returned: the piles
\* are empty while a card still names the pile it was in before new_game.
C19_Witness ==
    /\ pc = "setup"
    /\ rules.cleanup
    /\ last.op = "rules.cleanup"
    /\ \E c \in Made : c \in DOMAIN pile
    /\ \A pile_id \in DOMAIN piles : piles[pile_id] = <<>>

\* C20: every id next_card_id returns is greater than every id it returned
\* before, whichever game asks and whatever new_game calls lie in between.
C20_IdsNeverReused ==
    \A i \in 1..Len(issued), j \in 1..Len(issued) :
        i < j => issued[i] < issued[j]

\* A card has just been created after new_game emptied the game, and
\* another game has drawn an id as well.
C20_Witness ==
    /\ last.op = "create_card"
    /\ Len(issued) >= 3
    /\ Len(existing_cards) = 1
    /\ \E i \in 1..Len(issued) :
           /\ issued[i] # existing_cards[1]
           /\ issued[i] \notin DOMAIN pile
    /\ \E c \in Made : c \in DOMAIN pile

\* C21: create_pile(pile_id) with the id of an existing pile fails with an
\* error and leaves the piles, their items and the cards as they were.
C21_DuplicatePileRejected ==
    \A pile_id \in DOMAIN piles :
        LET r == create_pile(G, pile_id) IN
        r.threw # "none" /\ Untouched(r)

\* C22: create_group(group_id, filter) with the id of an existing group
\* fails with an error and leaves the members of the group and the list of
\* groups as they were.
C22_DuplicateGroupRejected ==
    \A group_id \in DOMAIN library.group_data, filter \in Filters :
        LET r == create_group(library, group_id, filter) IN
        /\ r.threw # "none"
        /\ r.lib.group_data = library.group_data
        /\ r.lib.all_groups = library.all_groups

\* C23: card_is_on_top_of_stack(card) raises no error and returns true for
\* a card that is not stacked and carries no stack, false for a card that
\* carries a stack, and, for a stacked card that carries none, true exactly
\* when the card is the last element of the stack of the card it is stacked
\* on.
C23_TopOfStack ==
    \A card \in Made :
        LET r == card_is_on_top_of_stack(G, card) IN
        /\ r.kind = "boolean"
        /\ r.value =
               IF card \in DOMAIN stack THEN FALSE
               ELSE IF card \notin DOMAIN stacked_on THEN TRUE
               ELSE /\ stacked_on[card] \in DOMAIN stack
                    /\ stack[stacked_on[card]] # <<>>
                    /\ stack[stacked_on[card]]
                           [Len(stack[stacked_on[card]])] = card

\* C24: stack_root(card) returns for every card, whatever the stacked_on
\* links form; when no card is its own stack ancestor it returns the card on
\* card's stacked_on chain (card included) that has no stacked_on, and for a
\* card that is its own stack ancestor it returns card's stacked_on.
C24_StackRootTerminates ==
    \A card \in Made :
        LET root == stack_root(G, card) IN
        /\ root \in Made
        /\ C3_Acyclic =>
               /\ root \in StackAncestors(card) \cup {card}
               /\ root \notin DOMAIN stacked_on
        /\ card \in StackAncestors(card) => root = stacked_on[card]

\* the card is an item of no pile
InNoPile(card) == \A P \in DOMAIN piles : Count(piles[P], card) = 0

C26_RemoveFromGroupNoOp ==
    \A pile_id \in DOMAIN piles, pile_group_id \in GroupIds :
        ~pile_is_in_group(G, pile_id, pile_group_id) =>
            LET r == remove_pile_from_group(G, pile_id, pile_group_id) IN
            /\ r.threw = "none"
            /\ \A P \in DOMAIN piles :
                   pile_is_in_group(r, P, pile_group_id)
                       = pile_is_in_group(G, P, pile_group_id)

\* C27: each trigger of an action built with the count "all" leaves the
\* pile it is triggered on empty, whatever sizes the pile had at earlier
\* triggers of the action (for a pile other than the action's destination).
C27_AllMovesWholePile ==
    \A pile_id \in DOMAIN piles :
        /\ pile_id # DestPileId.move_into =>
               LET r == move_into(G, num_cards_or_1.move_into, pile_id,
                                  DestPileId.move_into) IN
               /\ r.game.threw = "none"
               /\ r.game.piles[pile_id] = <<>>
        /\ pile_id # DestPileId.flip_into =>
               LET r == flip_into(G, num_cards_or_1.flip_into, pile_id,
                                  DestPileId.flip_into) IN
               /\ r.game.threw = "none"
               /\ r.game.piles[pile_id] = <<>>

\* the cards of array as a bag
BagOf(array) == [c \in {array[i] : i \in 1..Len(array)} |-> Count(array, c)]

\* C28: a trigger of the action built by shuffle_into(dest) without a count
\* leaves the pile it is triggered on empty and dest holding its former
\* cards and the cards of that pile, in some order (for a pile other than
\* dest).
C28_ShuffleIntoMovesAll ==
    \A pile_id \in DOMAIN piles \ {DestPileId.shuffle_into} :
        \A rnd \in Draws(NumCards) :
            LET r == shuffle_into(G, num_cards_or_all, pile_id,
                                  DestPileId.shuffle_into, rnd) IN
            /\ r.threw = "none"
            /\ r.piles[pile_id] = <<>>
            /\ BagOf(r.piles[DestPileId.shuffle_into])
                   = BagOf(piles[DestPileId.shuffle_into] \o piles[pile_id])

\* C29: insert_stack_into_pile_after(card, insert_after), with insert_after
\* in a pile and not stacked on card directly or through other cards,
\* leaves insert_after and every card that was stacked on insert_after,
\* directly or through other cards, at a lower index of the pile than card.
C29_InsertedAfterWholeStack ==
    \A card \in Made, insert_after \in Made :
        /\ insert_after \in DOMAIN pile
        /\ has_stack_ancestor(G, insert_after, card) = "false"
        => LET r == insert_stack_into_pile_after(G, card, insert_after)
               items == r.piles[pile[insert_after]]
           IN /\ r.threw = "none"
              /\ indexOf(items, card) >= 0
              /\ \A c \in ({insert_after} \cup SubStack(insert_after))
                              \ ({card} \cup SubStack(card)) :
                     indexOf(items, c) < indexOf(items, card)

\* in the pile P of r, the cards of card's stack follow card in stack order
\* and only cards stacked on card, directly or through other cards, lie
\* between card and the last of them
ChildrenFollow(r, card, P) ==
    LET items == r.piles[P]
        at == indexOf(items, card)
        kids == stack[card]
        rest == SubSeq(items, at + 2, Len(items))
    IN /\ at >= 0
       /\ Only(rest, Children(card)) = kids
       /\ rest # <<>> /\ rest[1] = kids[1]
       /\ \A j \in 1..Len(rest) :
              (\E k \in j..Len(rest) : rest[k] \in Children(card))
                  => rest[j] \in SubStack(card)

\* C30: insert_stack_into_pile_after(card, insert_after) and
\* stack_card_on_card(card, insert_after), for a card that carries a stack,
\* leave the cards of card's stack right after card in the pile, in stack
\* order, with no card from outside card's stack between card and them.
C30_ChildrenFollowCard ==
    \A card \in Made, insert_after \in Made :
        /\ card \in DOMAIN stack
        /\ insert_after \in DOMAIN pile
        /\ has_stack_ancestor(G, insert_after, card) = "false"
        => /\ LET r == insert_stack_into_pile_after(G, card, insert_after)
              IN r.threw = "none"
                     /\ ChildrenFollow(r, card, pile[insert_after])
           /\ LET r == stack_card_on_card(G, card, insert_after)
              IN r.threw = "none"
                     /\ ChildrenFollow(r, card, pile[insert_after])

\* card sits directly after insert_after in insert_after's pile, followed
\* by the cards stacked on it, directly or through other cards
SitsAfter(card, insert_after) ==
    /\ card # insert_after
    /\ insert_after \in DOMAIN pile
    /\ LET items == piles[pile[insert_after]]
           at == indexOf(items, insert_after)
           flat == Flatten(card, NumCards)
       IN /\ at >= 0
          /\ at + 1 + Len(flat) <= Len(items)
          /\ SubSeq(items, at + 2, at + 1 + Len(flat)) = flat

\* C31: insert_stack_into_pile_after(card, insert_after) for a card that
\* already sits directly after insert_after, with its own stack directly
\* after it, raises no error and leaves every pile's order, every pile field
\* and every stacking link as they were.
C31_SamePileAssignment ==
    \A card \in Made, insert_after \in Made :
        SitsAfter(card, insert_after) =>
            LET r == insert_stack_into_pile_after(G, card, insert_after) IN
            r.threw = "none" /\ Untouched(r)

\* C32: put_stack_on_pile(card, pile_id) on a card stacked on a parent
\* keeps the link when the parent is in pile_id and severs it when the
\* parent is in another pile or in none.
C32_PutStackSeversCrossPile ==
    \A card \in DOMAIN stacked_on, pile_id \in DOMAIN piles :
        LET r == put_stack_on_pile(G, card, pile_id)
            parent == stacked_on[card]
        IN /\ r.threw = "none"
           /\ IF parent \in DOMAIN pile /\ pile[parent] = pile_id
              THEN /\ card \in DOMAIN r.stacked_on
                   /\ r.stacked_on[card] = parent
                   /\ parent \in DOMAIN r.stack
                   /\ Count(r.stack[parent], card) = 1
              ELSE /\ card \notin DOMAIN r.stacked_on
                   /\ parent \in DOMAIN r.stack =>
                          Count(r.stack[parent], card) = 0

\* C33: no card has an empty stack: a card's stack field is absent or holds
\* at least one card.
C33_NoEmptyStack == \A c \in DOMAIN stack : stack[c] # <<>>

\* unstack_all_from has just detached the two cards stacked on a card, and
\* the card is left without stack
C33_Witness ==
    /\ last.op = "unstack_all_from"
    /\ last.threw = "none"
    /\ last.had_stack >= 2
    /\ last.card \notin DOMAIN stack
    /\ \E c \in DOMAIN stack : c # last.card

C35_TargetOnlyWhileConsidering == is_targeting(G) => ~IsNull(considering)

\* A drag has just entered a card that the rules accept as the target of
\* the card under consideration.
C35_Witness ==
    /\ last.op = "drag_enter"
    /\ potential_target_card \in Made
    /\ considering \in Made

\* C36: a cleanup function returned by a pre-play function is invoked at
\* most once and only with the card the pre-play function was run for, and
\* once no card is under consideration every cleanup function returned so
\* far has been invoked.
C36_CleanupRunsOnceForItsCard ==
    \A i \in 1..Len(cleanups) :
        /\ Len(cleanups[i].calls) <= 1
        /\ \A k \in 1..Len(cleanups[i].calls) :
               cleanups[i].calls[k] = cleanups[i].card
        /\ IsNull(considering) => cleanups[i].calls = <<cleanups[i].card>>

\* C37: every public operation returns from every reachable state: none of
\* has_stack_ancestor, insert_stack_into_pile_after, put_stack_on_pile,
\* remove_stack_from_pile, stack_card_on_card, unstack_card,
\* unstack_all_from and stack_root recurses without end (which the engine
\* reports as a RangeError).
C37_PublicOperationsTerminate ==
    \A card \in Made :
        /\ stack_root(G, card) # -2
        /\ remove_stack_from_pile(G, card).threw # "RangeError"
        /\ unstack_card(G, card).threw # "RangeError"
        /\ unstack_all_from(G, card).threw # "RangeError"
        /\ \A pile_id \in DOMAIN piles :
               put_stack_on_pile(G, card, pile_id).threw # "RangeError"
        /\ \A other \in Made :
               /\ has_stack_ancestor(G, card, other) # "RangeError"
               /\ insert_stack_into_pile_after(G, card, other).threw
                      # "RangeError"
               /\ stack_card_on_card(G, card, other).threw # "RangeError"

\* card and the cards stacked on it, directly or through other cards
MovedSubStack(card) == {card} \cup SubStack(card)

\* r relocated at most the cards of moved: the other cards have the pile
\* field they had and the order they had in every pile, and the stacking
\* links between two of them are the ones there were
OnlyRelocates(r, moved) ==
    LET others == Made \ moved IN
    /\ SamePlaces(r, others)
    /\ \A c \in others :
           /\ (c \in DOMAIN stacked_on /\ stacked_on[c] \in others)
                  => (c \in DOMAIN r.stacked_on
                      /\ r.stacked_on[c] = stacked_on[c])
           /\ (c \in DOMAIN r.stacked_on /\ r.stacked_on[c] \in others)
                  => (c \in DOMAIN stacked_on
                      /\ stacked_on[c] = r.stacked_on[c])
           /\ Only(StackArray(r, c), others) = Only(StackArray(G, c), others)

\* C38: a public move operation relocates only the moved card and the
\* cards stacked on it, directly or through other cards: every other card
\* keeps its pile and its order relative to the other cards of each pile,
\* and no stacking link between two other cards changes.
C38_MoveOnlyRelocatesSubStack ==
    \A card \in Made :
        LET moved == MovedSubStack(card) IN
        /\ OnlyRelocates(remove_card_from_pile(G, card), moved)
        /\ OnlyRelocates(remove_stack_from_pile(G, card), moved)
        /\ OnlyRelocates(unstack_card(G, card), moved)
        /\ OnlyRelocates(unstack_all_from(G, card), moved)
        /\ \A pile_id \in DOMAIN piles :
               /\ OnlyRelocates(put_card_on_pile(G, card, pile_id), moved)
               /\ OnlyRelocates(put_stack_on_pile(G, card, pile_id), moved)
        /\ \A other \in Made :
               /\ OnlyRelocates(insert_card_into_pile_after(G, card, other),
                                moved)
               /\ OnlyRelocates(insert_stack_into_pile_after(G, card, other),
                                moved)
               /\ OnlyRelocates(stack_card_on_card(G, card, other), moved)

\* put_stack_on_pile has just moved a card with a stack onto a pile while
\* two other cards, one stacked on the other, lie in a pile
C38_Witness ==
    /\ last.op = "put_stack_on_pile"
    /\ last.threw = "none"
    /\ last.had_stack >= 1
    /\ last.card \in DOMAIN stack
    /\ \E c \in Made \ MovedSubStack(last.card) :
           /\ c \in DOMAIN stacked_on
           /\ stacked_on[c] \in Made \ MovedSubStack(last.card)
           /\ c \in DOMAIN pile
           /\ pile[c] = last.pile_id

\* C39: insert_stack_into_pile_after(card, insert_after) with an
\* insert_after that is in no pile changes nothing, whether or not it
\* signals an error: every pile, pile field and stacking link is as before.
C39_InsertAfterUnplacedChangesNothing ==
    \A card \in Made, insert_after \in Made :
        insert_after \notin DOMAIN pile =>
            Untouched(insert_stack_into_pile_after(G, card, insert_after))

\* C40: once new_game has reset the game, a card created before the reset
\* has pile == P exactly when the items of P contain it: no card is left
\* with a pile field naming a pile whose items do not contain it.
C40_NewGameLeavesNoStalePile ==
    (\/ last.op = "new_game" /\ pc # "cleanup"
     \/ last.op = "rules.cleanup") =>
        \A c \in Made, P \in DOMAIN piles :
            (c \in DOMAIN pile /\ pile[c] = P) <=> Count(piles[P], c) >= 1

====
